---- MODULE Spec2Model ----
(***************************************************************************)
(* Model of the Sigma Identity OAuth client plugin.                        *)
(*                                                                         *)
(*   direct variant : src/unnamed/part_001 (browser exchanges the code     *)
(*                    with the authorization server itself, PKCE)          *)
(*   proxy variant  : src/src/index.ts lines 95-394 (browser posts the     *)
(*                    code to /api/auth/callback), served by               *)
(*                    createCallbackHandler and exchangeCodeForTokens of   *)
(*                    src/src/token-exchange.ts                            *)
(*                                                                         *)
(* Strings are TLA+ strings; an absent value (JS null / undefined, a query *)
(* parameter or storage key that is not there) is NULL.                    *)
(***************************************************************************)
EXTENDS Integers, Sequences, FiniteSets, TLC

VARIABLES
    variant,    \* which plugin build is loaded: "direct" or "proxy"
    hasWindow,  \* typeof window !== "undefined"
    storage,    \* sessionStorage of the tab: key -> value or NULL
    nav,        \* last assignment to window.location.href
    cb,         \* the handleCallback invocation of the current page, in
                \* flight or ended
    srv,        \* createCallbackHandler / exchangeCodeForTokens invocation
    hist,       \* what happened since the last signIn wrote the storage
    si,         \* the last signIn.sigma call: its requests and its promise
    prev,       \* the oauth_state of the attempt before the last one
    peer        \* a second tab of the same origin: its sessionStorage and
                \* its own attempt

vars == <<variant, hasWindow, storage, nav, cb, srv, hist, si, prev, peer>>

----------------------------------------------------------------------------
(* Bounds of the model *)

MaxStates == 2      \* distinct non-empty values the state generator returns
MaxVerifiers == 2   \* distinct PKCE verifiers the generator returns
MaxSuspended == 2   \* signIn calls of one tab suspended at the same time

----------------------------------------------------------------------------
(* JavaScript values *)

NULL == "<null>"

Truthy(v) == v /= NULL /\ v /= ""

\* a || b
Or(a, b) == IF Truthy(a) THEN a ELSE b

\* s.startsWith(p)
StartsWith(s, p) == Len(s) >= Len(p) /\ SubSeq(s, 1, Len(p)) = p

\* application/x-www-form-urlencoded byte serializer, on the characters
\* that occur in the model's values
EncChar(c) ==
    CASE c = ":" -> "%3A"
      [] c = "/" -> "%2F"
      [] c = "=" -> "%3D"
      [] c = "&" -> "%26"
      [] c = "(" -> "%28"
      [] c = ")" -> "%29"
      [] c = "<" -> "%3C"
      [] c = ">" -> "%3E"
      [] c = " " -> "+"
      [] OTHER   -> c

RECURSIVE EncodeFrom(_, _)
EncodeFrom(s, i) ==
    IF i > Len(s) THEN "" ELSE EncChar(SubSeq(s, i, i)) \o EncodeFrom(s, i + 1)

Encode(s) == EncodeFrom(s, 1)

\* URLSearchParams.prototype.toString(): k=v joined by &, in insertion order
RECURSIVE Serialize(_)
Serialize(params) ==
    IF params = <<>> THEN ""
    ELSE Encode(params[1][1]) \o "=" \o Encode(params[1][2])
         \o (IF Len(params) > 1 THEN "&" ELSE "")
         \o Serialize(Tail(params))

\* JSON.stringify of a flat object; undefined members are dropped and a
\* null member is written as null
RECURSIVE JsonMembers(_)
JsonMembers(params) ==
    IF params = <<>> THEN ""
    ELSE "\"" \o params[1][1] \o "\":"
         \o (IF params[1][2] = NULL THEN "null"
             ELSE "\"" \o params[1][2] \o "\"")
         \o (IF Len(params) > 1 THEN "," ELSE "")
         \o JsonMembers(Tail(params))

JsonStringify(params) == "{" \o JsonMembers(params) \o "}"

\* URLSearchParams.prototype.get(name) on a list of <<key, value>> pairs
RECURSIVE Get(_, _)
Get(params, k) ==
    IF params = <<>> THEN NULL
    ELSE IF params[1][1] = k THEN params[1][2]
    ELSE Get(Tail(params), k)

----------------------------------------------------------------------------
(* Environment *)

\* window.location.origin of the application page
Origin == "https://app.example"

\* authUrl: process.env.NEXT_PUBLIC_SIGMA_AUTH_URL is unset in the page
DefaultAuthUrl == "https://auth.sigmaidentity.com"

Keys == {"oauth_state", "pkce_verifier", "oauth_redirect_uri", "oauth_client_id"}

EmptyStorage == [k \in Keys |-> NULL]

\* Math.random().toString(36).substring(7): a short string, possibly empty
\* (0.5.toString(36) is "0.i", whose substring(7) is "")
RandomStates == {""} \cup {"s" \o ToString(i) : i \in 1..MaxStates}

\* generateCodeVerifier(): base64url of 32 random bytes
RandomVerifiers == {"v" \o ToString(i) : i \in 1..MaxVerifiers}

\* crypto.subtle.digest("SHA-256", encoder.encode(verifier)) as bytes: a
\* one-way function of the verifier, kept symbolic as a short digest whose
\* length leaves one byte of base64 padding, as 32 bytes do
Sha256(verifier) ==
    LET d == CHOOSE n \in 0..9 :
                ToString(n) = SubSeq(verifier, Len(verifier), Len(verifier))
    IN  <<251, 255, 16 * d, 255 - d, d>>

B64Alphabet ==
    "ABCDEFGHIJKLMNOPQRSTUVWXYZabcdefghijklmnopqrstuvwxyz0123456789+/"

B64Char(n) == SubSeq(B64Alphabet, n + 1, n + 1)

\* btoa(String.fromCharCode(...bytes)): base64 with padding
RECURSIVE btoa(_)
btoa(bytes) ==
    IF bytes = <<>> THEN ""
    ELSE LET n == Len(bytes)
             b1 == bytes[1]
             b2 == IF n > 1 THEN bytes[2] ELSE 0
             b3 == IF n > 2 THEN bytes[3] ELSE 0
         IN  B64Char(b1 \div 4)
             \o B64Char((b1 % 4) * 16 + (b2 \div 16))
             \o (IF n > 1 THEN B64Char((b2 % 16) * 4 + (b3 \div 64)) ELSE "=")
             \o (IF n > 2 THEN B64Char(b3 % 64) ELSE "=")
             \o btoa(SubSeq(bytes, 4, n))

\* a replace that leaves the string as it is
Replace_none(s, c, r) == s

\* s.replace(/c/g, r) for a one-character pattern
RECURSIVE Replace(_, _, _)
Replace(s, c, r) ==
    IF s = "" THEN ""
    ELSE (IF SubSeq(s, 1, 1) = c THEN r ELSE SubSeq(s, 1, 1))
         \o Replace(SubSeq(s, 2, Len(s)), c, r)

\* a challenge that is the verifier itself (the "plain" method)
generateCodeChallenge_plain(verifier) == verifier

\* generateCodeChallenge(verifier)
generateCodeChallenge(verifier) ==
    Replace(Replace(Replace(btoa(Sha256(verifier)), "+", "-"), "/", "_"),
            "=", "")

\* what `await generateCodeChallenge(codeVerifier)` yields, per verifier
CodeChallengeOf == [v \in RandomVerifiers |-> generateCodeChallenge(v)]

\* options of signIn.sigma in redirect mode, as the page calls it
CallbackURLs == {NULL, "/done", "https://app.example/cb"}
ClientIds == {NULL, "app1"}

SignInOptions == [callbackURL : CallbackURLs, clientId : ClientIds,
                  provider : {NULL}]

\* options of the signIn calls that overlap in one tab
InterleavedOptions == [callbackURL : {NULL, "/done"}, clientId : {NULL},
                       provider : {NULL}]

\* options of signIn.sigma in redirect mode, any caller
AnySignInOptions ==
    [callbackURL : CallbackURLs \cup {"", "done", "http-done", "myapp://cb"},
     clientId : ClientIds \cup {""},
     provider : {NULL, "", "github"}]

NoOptions == [callbackURL |-> NULL, clientId |-> NULL, provider |-> NULL]

NoNav == [options |-> NoOptions, params |-> <<>>, stored |-> EmptyStorage]

----------------------------------------------------------------------------
(* Responses of the authorization server *)

\* a response body: a JSON object with the members below, the JSON value
\* null (json, with text "null"), or text that is not JSON; bap is the
\* idKey of the bap member, NotAString when that idKey is a number
UpBody == [json |-> TRUE, text |-> NULL, error |-> NULL,
           error_description |-> NULL, access_token |-> NULL,
           refresh_token |-> NULL, sub |-> NULL, bap |-> NULL]

NotAString == "<number>"

UpNull == [UpBody EXCEPT !.text = "null"]

UpText(t) == [UpBody EXCEPT !.json = FALSE, !.text = t]

\* no body: an undefined member
NoBody == UpText(NULL)
UpError(e, d) == [UpBody EXCEPT !.error = e, !.error_description = d]
UpTokens(a, r) == [UpBody EXCEPT !.access_token = a, !.refresh_token = r]
UpUser(u) == [UpBody EXCEPT !.sub = u]

NetErr == [kind |-> "neterr", ok |-> FALSE, status |-> 0, body |-> UpText("")]
Http(ok, status, body) ==
    [kind |-> "http", ok |-> ok, status |-> status, body |-> body]

TokenResponses ==
    {NetErr, Http(FALSE, 500, UpText("<html>")), Http(TRUE, 200, UpText("<html>")),
     Http(FALSE, 304, UpText(""))}
    \cup {Http(FALSE, 400, UpError(e, d)) :
            e \in {NULL, "invalid_client", "invalid_grant", "server_error"},
            d \in {NULL, "bad request"}}
    \cup {Http(TRUE, 200, UpTokens("tok1", r)) : r \in {NULL, "ref1"}}

UserinfoResponses ==
    {NetErr, Http(FALSE, 401, UpText("denied")),
     Http(FALSE, 400, UpError("invalid_client", "bad request")),
     Http(TRUE, 200, UpText("<html>")), Http(TRUE, 200, UpUser("u1")),
     Http(TRUE, 200, UpNull),
     Http(TRUE, 200, [UpUser("u1") EXCEPT !.bap = NotAString])}

----------------------------------------------------------------------------
(* Callback query parameters and the records of an invocation *)

CbCodes == {NULL, "", "c1"}
CbStates == {NULL} \cup RandomStates
CbErrors == {NULL, "", "access_denied"}
CbErrorDescriptions == {NULL, "", "User declined"}

\* the query strings a callback is called with: every combination that
\* reaches the state check, and the short-circuits before it with and
\* without a code and a state
SearchParams ==
    {sp \in [code : CbCodes, state : CbStates, error : CbErrors,
             error_description : CbErrorDescriptions] :
        /\ sp.error_description /= NULL => Truthy(sp.error)
        /\ sp.error /= NULL => sp.code \in {NULL, "c1"} /\ sp.state \in {NULL, "s1"}
        /\ sp.error = "" => sp.code = "c1"
        /\ ~Truthy(sp.code) => sp.state \in {NULL, "s1"}}

NoParams == [code |-> NULL, state |-> NULL, error |-> NULL,
             error_description |-> NULL]

NoResult == [kind |-> "none", title |-> NULL, message |-> NULL,
             user |-> NoBody, access_token |-> NULL, refresh_token |-> NULL]

\* throw { title, message } as OAuthCallbackError
Throw(title, message) ==
    [kind |-> "error", title |-> title, message |-> message,
     user |-> NoBody, access_token |-> NULL, refresh_token |-> NULL]

\* an Error instance thrown by the platform: the TypeError of a failed fetch,
\* the SyntaxError of response.json(), a ReferenceError
Raise(message) ==
    [kind |-> "exception", title |-> NULL, message |-> message,
     user |-> NoBody, access_token |-> NULL, refresh_token |-> NULL]

\* a catch block that rethrows whatever it caught
Catch_rethrow(err) == err

\* the catch around the exchange: an object with a title and a message is
\* rethrown, anything else is wrapped
Catch(err) ==
    IF err.title /= NULL /\ err.message /= NULL
    THEN err
    ELSE Throw("Authentication Failed",
               IF err.kind = "exception" THEN err.message
               ELSE "An unknown error occurred.")

\* a result without the refresh token
Return_noRefresh(user, access, refresh) ==
    [kind |-> "ok", title |-> NULL, message |-> NULL,
     user |-> user, access_token |-> access, refresh_token |-> NULL]

\* return { user, access_token, refresh_token }
Return(user, access, refresh) ==
    [kind |-> "ok", title |-> NULL, message |-> NULL,
     user |-> user, access_token |-> access, refresh_token |-> refresh]

\* a request put on the network: fetch(url, {method, headers, body}); the
\* body is kept as the parameter list it is serialized from
Request(kind, method, url, params, auth) ==
    [kind |-> kind, method |-> method, url |-> url, params |-> params,
     auth |-> auth]

\* the body bytes of a request: tokenParams.toString() / requestBody for a
\* token request, JSON.stringify for the POST to /api/auth/callback
BodyOf(req) ==
    IF req.kind = "token" THEN Serialize(req.params)
    ELSE IF req.kind = "backend" THEN JsonStringify(req.params)
    ELSE NULL

\* loaded: the invocation reached the read of the saved state; savedState:
\* what that read returned; reqs: the requests it has sent; resps: the
\* responses it has received, in order; afterFirst: it
\* began after the first matching callback of the attempt, with no signIn
\* since; replay: moreover with that callback's query parameters
CbIdle == [pc |-> "idle", params |-> NoParams, loaded |-> FALSE,
           savedState |-> NULL, reqs |-> <<>>, resps |-> <<>>,
           result |-> NoResult,
           access_token |-> NULL, refresh_token |-> NULL,
           afterFirst |-> FALSE, replay |-> FALSE]

\* fresh: signIn wrote the storage and no callback has read it since;
\* consumed: the first callback that matched the attempt's state has run,
\* with query parameters `first`
HistNone == [fresh |-> FALSE, consumed |-> FALSE, first |-> NoParams]

----------------------------------------------------------------------------
(* Records of the route handler and of exchangeCodeForTokens *)

\* the JSON body of a handler response, or the thrown TokenExchangeError
HBody == [error |-> NULL, details |-> NoBody, status |-> 0,
          endpoint |-> NULL, user |-> NoBody, access_token |-> NULL,
          refresh_token |-> NULL]

NoOutcome == [kind |-> "none", ok |-> FALSE, status |-> 0, body |-> HBody]

NoConfig == [issuerUrl |-> NULL, clientId |-> NULL,
             memberPrivateKey |-> NULL, callbackPath |-> NULL]

NoExchangeOptions == [code |-> NULL, redirectUri |-> NULL, clientId |-> NULL,
                      memberPrivateKey |-> NULL, codeVerifier |-> NULL,
                      issuerUrl |-> NULL]

NoSigned == [requestPath |-> NULL, body |-> NULL, privateKeyWif |-> NULL]

NoHandlerBody == [code |-> NULL, code_verifier |-> NULL]

\* request: the JSON body the route handler was called with
SrvIdle == [pc |-> "idle", caller |-> "none", config |-> NoConfig,
            request |-> NoHandlerBody,
            options |-> NoExchangeOptions, signed |-> NoSigned,
            reqs |-> <<>>, resps |-> <<>>, access_token |-> NULL,
            refresh_token |-> NULL, outcome |-> NoOutcome]

----------------------------------------------------------------------------
(* Authorization Initiator: signIn.sigma(options) in redirect mode *)

\* redirect_uri resolution (part_001:119-124, index.ts:207-212)
ResolveRedirectUri(callbackURL) ==
    LET origin == IF hasWindow THEN Origin ELSE ""
        callbackPath == Or(callbackURL, "/callback")
    IN  IF StartsWith(callbackPath, "http") THEN callbackPath
        ELSE origin \o (IF StartsWith(callbackPath, "/") THEN callbackPath
                        ELSE "/" \o callbackPath)

\* clientId as persisted and sent by the direct variant
DirectClientId(options) == Or(options.clientId, "unknown")

\* query parameters of the authorization URL
AuthParams(options, state, codeChallenge) ==
    LET base == << <<"redirect_uri", ResolveRedirectUri(options.callbackURL)>>,
                   <<"response_type", "code">>,
                   <<"state", state>>,
                   <<"scope", "openid profile bsv:tools">>,
                   <<"code_challenge", codeChallenge>>,
                   <<"code_challenge_method", "S256">> >>
        clientId == IF variant = "direct" THEN DirectClientId(options)
                    ELSE options.clientId
        withClient == IF Truthy(clientId)
                      THEN Append(base, <<"client_id", clientId>>)
                      ELSE base
    IN  IF Truthy(options.provider)
        THEN Append(withClient, <<"provider", options.provider>>)
        ELSE withClient

\* fullAuthUrl, the value assigned to window.location.href
FullAuthUrl(params) == DefaultAuthUrl \o "/oauth2/authorize?" \o Serialize(params)

\* the setItem calls of signIn on a storage area
SetItems(store, options, state, codeVerifier) ==
    IF variant = "direct"
    THEN [store EXCEPT
            !["oauth_state"] = state,
            !["pkce_verifier"] = codeVerifier,
            !["oauth_redirect_uri"] = ResolveRedirectUri(options.callbackURL),
            !["oauth_client_id"] = DirectClientId(options)]
    ELSE [store EXCEPT !["oauth_state"] = state,
                       !["pkce_verifier"] = codeVerifier]

\* a signIn that leaves the FlowState of an earlier attempt in place
PersistFlowState_keepFirst(options, state, codeVerifier) ==
    IF storage["oauth_state"] /= NULL THEN storage
    ELSE SetItems(storage, options, state, codeVerifier)

\* sessionStorage.setItem calls of signIn
PersistFlowState(options, state, codeVerifier) ==
    SetItems(storage, options, state, codeVerifier)

\* the storage area the FlowState is kept in
StorageArea_local == "localStorage"

StorageArea == "sessionStorage"

\* sessionStorage belongs to one tab and localStorage to the origin: what
\* the second tab finds in the area after this tab left `written` in it
PeerSees(written) ==
    IF StorageArea = "sessionStorage" THEN peer
    ELSE [peer EXCEPT !.storage = written]

\* the promise returned after the navigation: new Promise(() => {}), which
\* nothing settles
RedirectPromise_resolved == "resolved"

RedirectPromise == "pending"

\* no signIn call yet; promise: "pending", "resolved" or "rejected";
\* value: what it settled with
\* suspended: the signIn calls waiting for generateCodeChallenge;
\* authToken: options.authToken of the local call
NoCall == [mode |-> "none", reqs |-> <<>>, promise |-> "none",
           value |-> NoOutcome, suspended |-> {}, authToken |-> NULL]

NoPeer == [storage |-> EmptyStorage, state |-> NULL, check |-> "none"]

\* signIn.sigma(options) without authToken: state and verifier generation,
\* the awaited code challenge, the storage writes, the navigation. The
\* navigation leaves the page, and with it goes the handleCallback invocation
\* of that page, ended or still awaiting a response, and the connection to
\* the route handler serving it. After its first await handleCallback reads
\* neither the storage nor the location, and the route handler never does:
\* a step of theirs taken before the page is gone is a step taken before
\* signIn.
\* the locals of one signIn call: they are drawn before the call awaits
\* generateCodeChallenge
Attempt(options, state, codeVerifier) ==
    [options |-> options, state |-> state, codeVerifier |-> codeVerifier]

SignInWith(options, state, codeVerifier) ==
    LET params == AuthParams(options, state, CodeChallengeOf[codeVerifier])
        stored == IF hasWindow
                  THEN PersistFlowState(options, state, codeVerifier)
                  ELSE storage
    IN  /\ storage' = stored
        /\ nav' = IF hasWindow
                  THEN [options |-> options, params |-> params,
                        stored |-> stored]
                  ELSE nav
        /\ hist' = IF hasWindow
                   THEN [fresh |-> TRUE, consumed |-> FALSE,
                         first |-> NoParams]
                   ELSE hist
        /\ cb' = IF hasWindow THEN CbIdle ELSE cb
        /\ srv' = IF hasWindow THEN SrvIdle ELSE srv
        /\ si' = [NoCall EXCEPT !.mode = "redirect",
                                !.promise = RedirectPromise,
                                !.suspended = si.suspended \
                                    {Attempt(options, state, codeVerifier)}]
        /\ peer' = PeerSees(stored)
        /\ UNCHANGED <<variant, hasWindow>>

\* one signIn call up to its only await: options read, state and verifier
\* drawn, then the call suspends while the challenge is computed
SignInSuspend_stateFirst ==
    /\ Cardinality(si.suspended) < MaxSuspended
    /\ \E options \in InterleavedOptions, state \in RandomStates,
          codeVerifier \in RandomVerifiers :
          /\ Attempt(options, state, codeVerifier) \notin si.suspended
          /\ si' = [si EXCEPT !.suspended =
                        @ \cup {Attempt(options, state, codeVerifier)}]
          /\ storage' = IF hasWindow
                        THEN [storage EXCEPT !["oauth_state"] = state]
                        ELSE storage
    /\ UNCHANGED <<variant, hasWindow, nav, cb, srv, hist, prev, peer>>

SignInSuspend ==
    /\ Cardinality(si.suspended) < MaxSuspended
    /\ \E options \in InterleavedOptions, state \in RandomStates,
          codeVerifier \in RandomVerifiers :
          /\ Attempt(options, state, codeVerifier) \notin si.suspended
          /\ si' = [si EXCEPT !.suspended =
                        @ \cup {Attempt(options, state, codeVerifier)}]
    /\ UNCHANGED <<variant, hasWindow, storage, nav, cb, srv, hist, prev,
                   peer>>

\* the challenge of a suspended call is ready: the rest of signIn runs
\* without another await, the storage writes and the navigation included
SignInResume ==
    /\ \E call \in si.suspended :
          SignInWith(call.options, call.state, call.codeVerifier)
    /\ UNCHANGED prev

\* the page calls signIn.sigma
SignIn ==
    /\ \E options \in SignInOptions, state \in RandomStates,
          codeVerifier \in RandomVerifiers :
             SignInWith(options, state, codeVerifier)
    /\ UNCHANGED prev

\* signIn.sigma called with any options
SignInAny ==
    /\ \E options \in AnySignInOptions, state \in RandomStates,
          codeVerifier \in RandomVerifiers :
             SignInWith(options, state, codeVerifier)
    /\ UNCHANGED prev

\* the page calls signIn.sigma; the state of the attempt it replaces is
\* remembered
SignInAgain ==
    /\ \E options \in SignInOptions, state \in RandomStates,
          codeVerifier \in RandomVerifiers :
             SignInWith(options, state, codeVerifier)
    /\ prev' = IF hasWindow /\ nav /= NoNav THEN nav.stored["oauth_state"]
               ELSE prev

\* options.authToken of a call, and the fetchOptions passed alongside
AuthTokens == {NULL, "", "tokA", "tokB"}

NoFetchOptions == [method |-> NULL, headers |-> NULL]

FetchOptions ==
    {NoFetchOptions,
     [NoFetchOptions EXCEPT !.method = "GET"],
     [NoFetchOptions EXCEPT !.headers = "X-Trace: 1"]}

\* the options object of the local call: { method: "POST", body: {},
\* headers: { "X-Auth-Token": authToken }, ...fetchOptions }; a member of
\* fetchOptions replaces the member of the same name before it
LocalRequest(authToken, fetchOptions) ==
    Request("local",
            IF fetchOptions.method /= NULL THEN fetchOptions.method
            ELSE "POST",
            "/sign-in/sigma", <<>>,
            IF fetchOptions.headers /= NULL THEN fetchOptions.headers
            ELSE "X-Auth-Token: " \o authToken)

\* what $fetch("/sign-in/sigma") may bring back
LocalResponses ==
    {NetErr, Http(TRUE, 200, UpUser("u1")), Http(FALSE, 401, UpText("denied"))}

\* signIn.sigma(options, fetchOptions): with an authToken the local call,
\* up to its await; without one the redirect
SignInSigma ==
    \E authToken \in AuthTokens, fetchOptions \in FetchOptions :
       IF Truthy(authToken)
       THEN /\ si' = [NoCall EXCEPT
                        !.mode = "local", !.promise = "pending",
                        !.authToken = authToken,
                        !.reqs = <<LocalRequest(authToken, fetchOptions)>>]
            /\ UNCHANGED <<variant, hasWindow, storage, nav, cb, srv, hist,
                           prev, peer>>
       ELSE SignIn

\* the local call: $fetch settles and signIn returns its result
LocalResponse ==
    /\ si.mode = "local"
    /\ si.promise = "pending"
    /\ \E resp \in LocalResponses :
         si' = [si EXCEPT !.promise = IF resp.kind = "neterr" THEN "rejected"
                                      ELSE "resolved",
                          !.value = resp]
    /\ UNCHANGED <<variant, hasWindow, storage, nav, cb, srv, hist, prev, peer>>

----------------------------------------------------------------------------
(* Callback Handler: sigma.handleCallback(searchParams) *)

\* a check that lets the callback through when nothing is stored
StateMismatch_onlyWhenStored(state, savedState) ==
    savedState /= NULL /\ state /= savedState

\* `state !== verifyState`
StateMismatch(state, savedState) == state /= savedState

\* sessionStorage.getItem(k), guarded by typeof window
GetItem(k) == IF hasWindow THEN storage[k] ELSE NULL

\* a storage area after the removeItem calls of the failed state check
RemoveOnMismatch(store) ==
    IF ~hasWindow THEN store
    ELSE IF variant = "direct"
    THEN [store EXCEPT !["oauth_state"] = NULL,
                       !["oauth_redirect_uri"] = NULL,
                       !["oauth_client_id"] = NULL]
    ELSE [store EXCEPT !["oauth_state"] = NULL]

\* a storage area after the removeItem calls that follow a passed check
RemoveAfterVerify(store) ==
    IF ~hasWindow THEN store
    ELSE IF variant = "direct" THEN EmptyStorage
    ELSE [store EXCEPT !["oauth_state"] = NULL]

EraseOnMismatch == RemoveOnMismatch(storage)

EraseAfterVerify == RemoveAfterVerify(storage)

\* a token request that always names the default callback
TokenRedirectUri_default(savedRedirectUri) == Origin \o "/callback"

\* redirect_uri and client_id of the direct token request
TokenRedirectUri(savedRedirectUri) == Or(savedRedirectUri, Origin \o "/callback")
TokenClientId(savedClientId) == Or(savedClientId, "unknown")

\* tokenParams of the direct variant
TokenParams(code, savedRedirectUri, savedClientId, codeVerifier) ==
    LET base == << <<"grant_type", "authorization_code">>,
                   <<"code", code>>,
                   <<"redirect_uri", TokenRedirectUri(savedRedirectUri)>>,
                   <<"client_id", TokenClientId(savedClientId)>> >>
    IN  IF Truthy(codeVerifier)
        THEN Append(base, <<"code_verifier", codeVerifier>>)
        ELSE base

\* body of the POST to /api/auth/callback of the proxy variant
BackendParams(code, state, codeVerifier) ==
    LET base == << <<"code", code>>, <<"state", state>> >>
    IN  IF codeVerifier /= NULL
        THEN Append(base, <<"code_verifier", codeVerifier>>)
        ELSE base

\* the first request of handleCallback after the state check
FirstRequest(code, state, saved, codeVerifier) ==
    IF variant = "direct"
    THEN LET p == TokenParams(code, saved["oauth_redirect_uri"],
                              saved["oauth_client_id"], codeVerifier)
         IN  Request("token", "POST", DefaultAuthUrl \o "/api/auth/oauth2/token",
                     p, NULL)
    ELSE LET p == BackendParams(code, state, codeVerifier)
         IN  Request("backend", "POST", "/api/auth/callback",
                     p, NULL)

\* a message that ignores error_description
CallbackErrorMessage_errorOnly(error, errorDescription) == error

\* errorDescription || error || "An unknown error occurred ..."
CallbackErrorMessage(error, errorDescription) ==
    Or(errorDescription,
       Or(error, "An unknown error occurred during authentication."))

\* a code check that only notices an absent parameter
MissingCode_absentOnly(code) == code = NULL

\* `!code`
MissingCode(code) == ~Truthy(code)

\* handleCallback from its call to the first `await fetch`, or to the throw
\* that ends it before
CbStart ==
    /\ cb.pc \in {"idle", "done"}
    /\ \E sp \in SearchParams :
       LET begun == [CbIdle EXCEPT !.params = sp,
                                   !.afterFirst = hist.consumed,
                                   !.replay = hist.consumed /\ sp = hist.first]
           ended(c, r) == [c EXCEPT !.pc = "done", !.result = r]
           savedState == GetItem("oauth_state")
           saved == [k \in Keys |-> IF k = "pkce_verifier" THEN NULL
                                    ELSE GetItem(k)]
           loaded == [begun EXCEPT !.loaded = TRUE, !.savedState = savedState]
           codeVerifier == IF Truthy(GetItem("pkce_verifier"))
                           THEN GetItem("pkce_verifier") ELSE NULL
       IN  IF Truthy(sp.error)
           THEN /\ cb' = ended(begun, Throw("Authentication Error",
                          CallbackErrorMessage(sp.error, sp.error_description)))
                /\ UNCHANGED hist
                /\ UNCHANGED storage
           ELSE IF MissingCode(sp.code)
           THEN /\ cb' = ended(begun, Throw("Missing Authorization Code",
                    "The authorization code was not received from the authentication server."))
                /\ UNCHANGED hist
                /\ UNCHANGED storage
           ELSE IF StateMismatch(sp.state, savedState)
           THEN /\ cb' = ended(loaded, Throw("Security Error",
                    "Invalid state parameter. Please try signing in again."))
                /\ storage' = EraseOnMismatch
                /\ hist' = [hist EXCEPT !.fresh = FALSE]
           ELSE /\ storage' = EraseAfterVerify
                /\ hist' = IF hist.fresh
                           THEN [fresh |-> FALSE, consumed |-> TRUE,
                                 first |-> sp]
                           ELSE hist
                /\ IF variant = "direct" /\ ~hasWindow
                      /\ ~Truthy(saved["oauth_redirect_uri"])
                   THEN \* window.location.origin: ReferenceError, wrapped
                        cb' = ended(loaded, Catch(Raise("window is not defined")))
                   ELSE cb' = [loaded EXCEPT
                                 !.pc = IF variant = "direct" THEN "token"
                                        ELSE "backend",
                                 !.reqs = <<FirstRequest(sp.code, sp.state,
                                                saved, codeVerifier)>>]
    /\ peer' = PeerSees(storage')
    /\ UNCHANGED <<si, prev, variant, hasWindow, nav, srv>>

\* a userinfo request whose bearer token is not the one just received
UserinfoRequest_noToken(issuerUrl, accessToken) ==
    Request("userinfo", "GET", issuerUrl \o "/api/auth/oauth2/userinfo",
            <<>>, "Bearer undefined")

\* fetch(`${issuerUrl}/api/auth/oauth2/userinfo`, { headers: { Authorization:
\* `Bearer ${tokens.access_token}` } })
UserinfoRequest(issuerUrl, accessToken) ==
    Request("userinfo", "GET", issuerUrl \o "/api/auth/oauth2/userinfo",
            <<>>, "Bearer " \o accessToken)

\* the same without the two branches on errorData.error
DirectTokenError_generic(body) ==
    LET default == "Failed to exchange authorization code for access token."
    IN  Throw("Token Exchange Failed",
              IF ~body.json THEN default
              ELSE IF Truthy(body.error_description) THEN body.error_description
              ELSE IF Truthy(body.error) THEN body.error
              ELSE default)

\* title and message thrown by the direct variant for a non-ok token response
DirectTokenError(body) ==
    LET title == IF ~body.json THEN "Token Exchange Failed"
                 ELSE IF body.error = "invalid_client" THEN "Client Not Registered"
                 ELSE IF body.error = "invalid_grant"
                 THEN "Invalid Authorization Code"
                 ELSE "Token Exchange Failed"
        default == "Failed to exchange authorization code for access token."
        message == IF ~body.json THEN default
                   ELSE IF body.error = "invalid_client"
                   THEN "This application is not registered with Sigma Identity."
                   ELSE IF body.error = "invalid_grant"
                   THEN "The authorization code is invalid or expired. Please try again."
                   ELSE IF Truthy(body.error_description)
                   THEN body.error_description
                   ELSE IF Truthy(body.error) THEN body.error
                   ELSE default
    IN  Throw(title, message)

\* a token step that sends the token request again when the fetch failed
CbTokenResponse_retry ==
    /\ variant = "direct"
    /\ cb.pc = "token"
    /\ cb' = IF Len(cb.reqs) < 2
             THEN [cb EXCEPT !.resps = Append(@, NetErr),
                             !.reqs = Append(@, cb.reqs[1])]
             ELSE [cb EXCEPT !.resps = Append(@, NetErr), !.pc = "done",
                             !.result = Catch(Raise("Failed to fetch"))]
    /\ UNCHANGED <<si, prev, peer, variant, hasWindow, storage, nav, srv, hist>>

\* direct variant: the token response arrives; on success the userinfo
\* request is sent
CbTokenResponse ==
    /\ variant = "direct"
    /\ cb.pc = "token"
    /\ \E resp \in TokenResponses :
       LET got == [cb EXCEPT !.resps = Append(@, resp)]
       IN
       cb' = IF resp.kind = "neterr"
             THEN [got EXCEPT !.pc = "done",
                     !.result = Catch(Raise("Failed to fetch"))]
             ELSE IF ~resp.ok
             THEN [got EXCEPT !.pc = "done", !.result = Catch(DirectTokenError(resp.body))]
             ELSE IF ~resp.body.json
             THEN [got EXCEPT !.pc = "done",
                     !.result = Catch(Raise("Unexpected token in JSON"))]
             ELSE [got EXCEPT !.pc = "userinfo",
                     !.access_token = resp.body.access_token,
                     !.refresh_token = resp.body.refresh_token,
                     !.reqs = Append(@, UserinfoRequest(DefaultAuthUrl,
                                                resp.body.access_token))]
    /\ UNCHANGED <<si, prev, peer, variant, hasWindow, storage, nav, srv, hist>>

\* a userinfo failure reported as a failure of the token exchange
UserInfoFailed_asTokenExchange ==
    Throw("Token Exchange Failed",
          "Failed to exchange authorization code for access token.")

\* what the direct variant throws for a userinfo response that is not ok
UserInfoFailed ==
    Throw("User Info Failed",
          "Failed to retrieve user information from Sigma.")

\* a userinfo step that goes back to the token exchange
CbUserinfoResponse_again ==
    /\ variant = "direct"
    /\ cb.pc = "userinfo"
    /\ cb' = [cb EXCEPT !.pc = "token", !.resps = Append(@, NetErr)]
    /\ UNCHANGED <<si, prev, peer, variant, hasWindow, storage, nav, srv, hist>>

\* direct variant: the userinfo response arrives
CbUserinfoResponse ==
    /\ variant = "direct"
    /\ cb.pc = "userinfo"
    /\ \E resp \in UserinfoResponses :
       cb' = [cb EXCEPT !.pc = "done", !.resps = Append(@, resp), !.result =
                IF resp.kind = "neterr"
                THEN Catch(Raise("Failed to fetch"))
                ELSE IF ~resp.ok
                THEN Catch(UserInfoFailed)
                ELSE IF ~resp.body.json
                THEN Catch(Raise("Unexpected token in JSON"))
                ELSE Return(resp.body, cb.access_token, cb.refresh_token)]
    /\ UNCHANGED <<si, prev, peer, variant, hasWindow, storage, nav, srv, hist>>

----------------------------------------------------------------------------
(* A second tab of the same origin, running the same plugin *)

\* signIn.sigma() in the second tab
PeerSignIn ==
    /\ hasWindow
    /\ \E state \in RandomStates :
         peer' = [storage |-> SetItems(peer.storage, NoOptions, state,
                                       CHOOSE v \in RandomVerifiers : TRUE),
                  state |-> state, check |-> "none"]
    /\ UNCHANGED <<variant, hasWindow, storage, nav, cb, srv, hist, si, prev>>

\* handleCallback in the second tab, called with a code and the state of
\* that tab's attempt, up to the state check and the removeItem calls
PeerCallback ==
    /\ hasWindow
    /\ peer.state /= NULL
    /\ peer.check = "none"
    /\ peer' = IF StateMismatch(peer.state, peer.storage["oauth_state"])
               THEN [peer EXCEPT !.check = "failed",
                                 !.storage = RemoveOnMismatch(@)]
               ELSE [peer EXCEPT !.check = "passed",
                                 !.storage = RemoveAfterVerify(@)]
    /\ UNCHANGED <<variant, hasWindow, storage, nav, cb, srv, hist, si, prev>>

----------------------------------------------------------------------------
(* Token Exchanger: exchangeCodeForTokens(options), and the route handler  *)
(* returned by createCallbackHandler(config)                               *)

\* Response.json(body, { status })
NullBodyStatus == {101, 103, 204, 205, 304}

\* Response.json(body, { status }): a response, or the TypeError or
\* RangeError of the Response constructor for a status that allows no body
\* or lies outside 200..599, which leaves the handler as an exception
ResponseJson(body, status) ==
    IF status \in NullBodyStatus \/ status < 200 \/ status > 599
    THEN [kind |-> "throw", ok |-> FALSE, status |-> 0,
          body |-> [HBody EXCEPT !.error = "TypeError",
                      !.details = UpText("Invalid response status code")]]
    ELSE [kind |-> "http", ok |-> (status >= 200 /\ status <= 299),
          status |-> status, body |-> body]

\* what createCallbackHandler is configured with; each entry stands for
\* config.x || process.env.X
Configs == [issuerUrl : {NULL, "https://auth.local"},
            clientId : {NULL, "app1"},
            memberPrivateKey : {NULL, "wif"},
            callbackPath : {NULL, "/done"}]

\* the deployments behind the page: the issuer is left at its default
PageConfigs == {c \in Configs : c.issuerUrl = NULL}

\* the JSON body POSTed to the route
HandlerBodies == [code : {NULL, "", "c1"}, code_verifier : {NULL, "v1"}]

\* options of a call of exchangeCodeForTokens by other server code
ExchangeOptions == [code : {"c1"},
                    redirectUri : {"https://app.example/callback",
                                   "https://app.example/done"},
                    clientId : {"app1", "app2"}, memberPrivateKey : {"wif"},
                    codeVerifier : {NULL, "", "v1"},
                    issuerUrl : {NULL, "https://auth.local/base"}]

\* a body that never carries the code verifier
BodyParams_noVerifier(options) ==
    << <<"grant_type", "authorization_code">>, <<"code", options.code>>,
       <<"redirect_uri", options.redirectUri>>,
       <<"client_id", options.clientId>> >>

\* bodyParams of exchangeCodeForTokens
BodyParams(options) ==
    LET base == << <<"grant_type", "authorization_code">>,
                   <<"code", options.code>>,
                   <<"redirect_uri", options.redirectUri>>,
                   <<"client_id", options.clientId>> >>
    IN  IF Truthy(options.codeVerifier)
        THEN Append(base, <<"code_verifier", options.codeVerifier>>)
        ELSE base

\* a signature over the body as it was before code_verifier was added
SignatureInput_staleBody(memberPrivateKey, requestBody) ==
    [privateKeyWif |-> memberPrivateKey, requestPath |-> "/oauth2/token",
     body |-> SubSeq(requestBody, 1, Len(requestBody) - 1)]

\* the argument of getAuthToken: what the signature covers
SignatureInput(memberPrivateKey, requestBody) ==
    [privateKeyWif |-> memberPrivateKey, requestPath |-> "/oauth2/token",
     body |-> requestBody]

\* the public key of a private key: all of the key that a token shows
PublicKeyOf(privateKeyWif) == "pub" \o ToString(Len(privateKeyWif))

\* a header value that is the key itself
getAuthToken_rawKey(signed) == signed.privateKeyWif

\* getAuthToken of bitcoin-auth: a token made of the public key, the path
\* and a signature over path and body
getAuthToken(signed) ==
    PublicKeyOf(signed.privateKeyWif) \o "|" \o signed.requestPath
        \o "|sig(" \o signed.requestPath \o "," \o signed.body \o ")"

\* the URL the token request is POSTed to
TokenUrl(issuerUrl) == issuerUrl \o "/api/auth/oauth2/token"

\* issuerUrl = "https://auth.sigmaidentity.com" when undefined
IssuerOf(options) ==
    IF options.issuerUrl = NULL THEN DefaultAuthUrl ELSE options.issuerUrl

\* exchangeCodeForTokens from its call to `await fetch(token endpoint)`
ExchangeBegin(caller, config, options) ==
    LET requestBody == Serialize(BodyParams(options))
        signed == SignatureInput(options.memberPrivateKey, requestBody)
    IN  [SrvIdle EXCEPT
           !.pc = "token", !.caller = caller, !.config = config,
           !.options = options, !.signed = signed,
           !.reqs = <<Request("token", "POST", TokenUrl(IssuerOf(options)),
                              BodyParams(options),
                              "X-Auth-Token: " \o getAuthToken(signed))>>]

\* the handler ends with this response
Respond(caller, config, response) ==
    [SrvIdle EXCEPT !.pc = "done", !.caller = caller, !.config = config,
                    !.outcome = response]

\* checks that look at the configuration before they look at the body
HandlerCheck_configFirst(config, body) ==
    IF ~Truthy(config.memberPrivateKey) THEN "key"
    ELSE IF ~Truthy(config.clientId) THEN "client"
    ELSE IF ~Truthy(body.code) THEN "code"
    ELSE "ok"

\* the checks of the handler, in the order of the code: `!code`,
\* `!memberPrivateKey`, `!clientId`
HandlerCheck(config, body) ==
    IF ~Truthy(body.code) THEN "code"
    ELSE IF ~Truthy(config.memberPrivateKey) THEN "key"
    ELSE IF ~Truthy(config.clientId) THEN "client"
    ELSE "ok"

\* the route handler from the request to the first await inside
\* exchangeCodeForTokens, or to the early response
HandlerBegin(caller, config, body) ==
    LET failed == HandlerCheck(config, body)
        begun ==
          IF failed = "code"
          THEN Respond(caller, config, ResponseJson(
                 [HBody EXCEPT !.error = "Missing authorization code"], 400))
          ELSE IF failed = "key"
          THEN Respond(caller, config, ResponseJson(
                 [HBody EXCEPT !.error = "Server configuration error",
                    !.details = UpText("Missing SIGMA_MEMBER_PRIVATE_KEY")],
                 500))
          ELSE IF failed = "client"
          THEN Respond(caller, config, ResponseJson(
                 [HBody EXCEPT !.error = "Server configuration error",
                               !.details = UpText("Missing client ID")], 500))
          ELSE ExchangeBegin(caller, config,
                 [code |-> body.code,
                  redirectUri |-> Origin \o Or(config.callbackPath, "/callback"),
                  clientId |-> config.clientId,
                  memberPrivateKey |-> config.memberPrivateKey,
                  codeVerifier |-> body.code_verifier,
                  issuerUrl |-> Or(config.issuerUrl, DefaultAuthUrl)])
    IN  [begun EXCEPT !.request = body]

\* no invocation is running on the server and no response is still owed
\* to the page
SrvFree ==
    /\ srv.pc \in {"idle", "done"}
    /\ ~(cb.pc = "awaiting")

\* the route handler receives the POST of the page's handleCallback
SrvHandleBrowser ==
    /\ variant = "proxy"
    /\ cb.pc = "backend"
    /\ SrvFree
    /\ \E config \in PageConfigs :
         srv' = HandlerBegin("browser", config,
                  [code |-> Get(cb.reqs[1].params, "code"),
                   code_verifier |-> Get(cb.reqs[1].params, "code_verifier")])
    /\ cb' = [cb EXCEPT !.pc = "awaiting"]
    /\ UNCHANGED <<si, prev, peer, variant, hasWindow, storage, nav, hist>>

\* the route handler receives a POST from any other client
SrvHandleExternal ==
    /\ SrvFree
    /\ \E config \in Configs, body \in HandlerBodies :
         srv' = HandlerBegin("external", config, body)
    /\ UNCHANGED <<si, prev, peer, variant, hasWindow, storage, nav, cb, hist>>

\* other server code calls exchangeCodeForTokens
ExchangeCall ==
    /\ SrvFree
    /\ \E options \in ExchangeOptions :
         srv' = ExchangeBegin("direct", NoConfig, options)
    /\ UNCHANGED <<si, prev, peer, variant, hasWindow, storage, nav, cb, hist>>

\* the handler's catch: a TokenExchangeError becomes a response with its
\* status, anything else a 500
HandlerCatch(isTokenExchangeError, body) ==
    IF isTokenExchangeError
    THEN ResponseJson(body, IF body.status /= 0 THEN body.status ELSE 500)
    ELSE ResponseJson([HBody EXCEPT !.error = "Internal server error",
                                    !.details = body.details], 500)

\* how an invocation that throws `err` ends: a direct caller gets the
\* exception, the handler answers from its catch
SrvThrow(isTokenExchangeError, body) ==
    IF srv.caller = "direct"
    THEN [kind |-> "throw", ok |-> FALSE, status |-> body.status, body |-> body]
    ELSE HandlerCatch(isTokenExchangeError, body)

\* an error value that leaves the response body out
TokenExchangeFailed_noDetails(resp) ==
    [HBody EXCEPT !.error = "Token exchange failed", !.status = resp.status,
                  !.endpoint = "/api/auth/oauth2/token"]

\* the TokenExchangeError thrown for a token response that is not ok
TokenExchangeFailed(resp) ==
    [HBody EXCEPT !.error = "Token exchange failed",
                  !.details = resp.body, !.status = resp.status,
                  !.endpoint = "/api/auth/oauth2/token"]

\* the handler after exchangeCodeForTokens resolved: the console.log of
\* result.user.bap, result.user.name and
\* result.user.bap?.idKey?.substring(0, 20), then Response.json of the
\* result. Reading a member of null and calling substring on a number are
\* TypeErrors, which the catch answers
HandlerSuccess(result) ==
    IF result.user = UpNull
    THEN HandlerCatch(FALSE, [HBody EXCEPT !.error = "TypeError",
           !.details = UpText("Cannot read properties of null (reading 'bap')")])
    ELSE IF result.user.bap = NotAString
    THEN HandlerCatch(FALSE, [HBody EXCEPT !.error = "TypeError",
           !.details = UpText("result.user.bap?.idKey?.substring is not a function")])
    ELSE ResponseJson(result, 200)

\* the TokenExchangeError thrown for a userinfo response that is not ok
UserInfoError(resp) ==
    [HBody EXCEPT !.error = "Failed to get user info",
                  !.details = resp.body, !.status = resp.status,
                  !.endpoint = "/api/auth/oauth2/userinfo"]

\* exchangeCodeForTokens: the token response arrives
SrvTokenResponse ==
    /\ srv.pc = "token"
    /\ \E resp \in TokenResponses :
       LET got == [srv EXCEPT !.resps = Append(@, resp)]
       IN
       srv' = IF resp.kind = "neterr"
              THEN [got EXCEPT !.pc = "done", !.outcome =
                      SrvThrow(FALSE, [HBody EXCEPT !.error = "TypeError",
                                          !.details = UpText("fetch failed")])]
              ELSE IF ~resp.ok
              THEN [got EXCEPT !.pc = "done", !.outcome =
                      SrvThrow(TRUE, TokenExchangeFailed(resp))]
              ELSE IF ~resp.body.json
              THEN [got EXCEPT !.pc = "done", !.outcome =
                      SrvThrow(FALSE, [HBody EXCEPT !.error = "SyntaxError",
                                          !.details = UpText("Unexpected token")])]
              ELSE [got EXCEPT !.pc = "userinfo",
                      !.access_token = resp.body.access_token,
                      !.refresh_token = resp.body.refresh_token,
                      !.reqs = Append(@, UserinfoRequest(IssuerOf(srv.options),
                                                 resp.body.access_token))]
    /\ UNCHANGED <<si, prev, peer, variant, hasWindow, storage, nav, cb, hist>>

\* exchangeCodeForTokens: the userinfo response arrives
SrvUserinfoResponse ==
    /\ srv.pc = "userinfo"
    /\ \E resp \in UserinfoResponses :
       srv' = [srv EXCEPT !.pc = "done", !.resps = Append(@, resp), !.outcome =
                IF resp.kind = "neterr"
                THEN SrvThrow(FALSE, [HBody EXCEPT !.error = "TypeError",
                                         !.details = UpText("fetch failed")])
                ELSE IF ~resp.ok
                THEN SrvThrow(TRUE, UserInfoError(resp))
                ELSE IF ~resp.body.json
                THEN SrvThrow(FALSE, [HBody EXCEPT !.error = "SyntaxError",
                                         !.details = UpText("Unexpected token")])
                ELSE LET result == [HBody EXCEPT
                                      !.user = resp.body,
                                      !.access_token = srv.access_token,
                                      !.refresh_token = srv.refresh_token]
                     IN  IF srv.caller = "direct"
                         THEN [kind |-> "result", ok |-> TRUE, status |-> 0,
                               body |-> result]
                         ELSE HandlerSuccess(result)]
    /\ UNCHANGED <<si, prev, peer, variant, hasWindow, storage, nav, cb, hist>>

----------------------------------------------------------------------------
(* Callback Handler, proxy variant: the answer of /api/auth/callback *)

\* title and message thrown by the proxy variant for a non-ok response
ProxyError(resp) ==
    LET errorData == resp.body
        default == "Failed to exchange authorization code for access token."
        \* the handler threw: the answer is the framework's, not JSON
        parsed == resp.kind = "http"
        endpoint == Or(errorData.endpoint, "unknown")
        status == IF errorData.status /= 0 THEN errorData.status ELSE resp.status
        details == errorData.details
        hasDetails == details.json \/ Truthy(details.text)
        title == IF hasDetails /\ details.json /\ details.error = "invalid_client"
                 THEN "Platform Not Registered" ELSE "Token Exchange Failed"
        message ==
            IF hasDetails
            THEN IF ~details.json THEN details.text
                 ELSE IF details.error = "invalid_client"
                 THEN "This platform is not registered with the authentication server."
                 ELSE IF Truthy(details.error_description)
                 THEN details.error_description
                 ELSE default
            ELSE IF Truthy(errorData.error) THEN errorData.error
            ELSE default
    IN  IF ~parsed THEN Throw("Token Exchange Failed", default)
        ELSE Throw(title, message \o "\n\nBackend: " \o ToString(status)
                          \o " (" \o endpoint \o ")")

\* proxy variant: the response of the route handler arrives, or the fetch
\* fails before the request reaches the server
CbBackendResponse ==
    /\ variant = "proxy"
    /\ \/ /\ cb.pc = "backend"
          /\ cb' = [cb EXCEPT !.pc = "done", !.resps = Append(@, NetErr),
                      !.result = Catch(Raise("Failed to fetch"))]
          /\ UNCHANGED srv
       \/ /\ cb.pc = "awaiting"
          /\ srv.pc = "done"
          /\ cb' = [cb EXCEPT !.pc = "done",
                      !.resps = Append(@, srv.outcome), !.result =
                      IF ~srv.outcome.ok THEN Catch(ProxyError(srv.outcome))
                      ELSE Return(srv.outcome.body.user,
                                  srv.outcome.body.access_token,
                                  srv.outcome.body.refresh_token)]
          /\ srv' = SrvIdle
    /\ UNCHANGED <<si, prev, peer, variant, hasWindow, storage, nav, hist>>

----------------------------------------------------------------------------
(* Construction *)

Init ==
    /\ variant \in {"direct", "proxy"}
    /\ hasWindow \in BOOLEAN
    /\ storage = EmptyStorage
    /\ nav = NoNav
    /\ cb = CbIdle
    /\ srv = SrvIdle
    /\ hist = HistNone
    /\ si = NoCall
    /\ prev = NULL
    /\ peer = NoPeer

----------------------------------------------------------------------------
(* Specification *)

\* the page, with the route handler behind /api/auth/callback
Next ==
    \/ SignIn
    \/ CbStart
    \/ CbTokenResponse
    \/ CbUserinfoResponse
    \/ CbBackendResponse
    \/ SrvHandleBrowser
    \/ SrvTokenResponse
    \/ SrvUserinfoResponse

Spec == Init /\ [][Next]_vars

\* the same, where every request that is awaited gets its response or its
\* error and the route handler gets the requests sent to it
Responses ==
    /\ WF_vars(CbTokenResponse)
    /\ WF_vars(CbUserinfoResponse)
    /\ WF_vars(CbBackendResponse)
    /\ WF_vars(SrvHandleBrowser)
    /\ WF_vars(SrvTokenResponse)
    /\ WF_vars(SrvUserinfoResponse)

SpecLive == Init /\ [][Next]_vars /\ Responses

\* the server-side entry points on their own, called with any input
NextServer ==
    \/ SrvHandleExternal
    \/ ExchangeCall
    \/ SrvTokenResponse
    \/ SrvUserinfoResponse

SpecServer == Init /\ [][NextServer]_vars

\* signIn.sigma on its own, called with any options
NextSignIn == SignInAny

SpecSignIn == Init /\ [][NextSignIn]_vars

\* successive attempts in one tab, and the callbacks that come back
NextAttempts ==
    \/ SignInAgain
    \/ CbStart

SpecAttempts == Init /\ [][NextAttempts]_vars

\* signIn.sigma in both of its modes
NextLocal ==
    \/ SignInSigma
    \/ LocalResponse

SpecLocal == Init /\ [][NextLocal]_vars

\* two tabs of one origin, each with its own attempts and callbacks
NextTabs ==
    \/ SignIn
    \/ CbStart
    \/ PeerSignIn
    \/ PeerCallback

SpecTabs == Init /\ [][NextTabs]_vars

\* signIn calls of one tab that overlap: each may resume in any order
NextInterleave ==
    \/ SignInSuspend
    \/ SignInResume

SpecInterleave == Init /\ [][NextInterleave]_vars

----------------------------------------------------------------------------
(* Properties *)

\* the requests of the current handleCallback invocation that carry the
\* authorization code: the token request or the POST to /api/auth/callback
ExchangeRequests == {i \in 1..Len(cb.reqs) : cb.reqs[i].kind \in {"token", "backend"}}

\* pathname of an absolute URL: what follows scheme://host
RECURSIVE IndexFrom(_, _, _)
IndexFrom(s, c, i) ==
    IF i > Len(s) THEN 0
    ELSE IF SubSeq(s, i, i) = c THEN i
    ELSE IndexFrom(s, c, i + 1)

UrlPath(url) ==
    LET colon == IndexFrom(url, ":", 1)
        slash == IndexFrom(url, "/", colon + 3)
    IN  IF slash = 0 THEN "/" ELSE SubSeq(url, slash, Len(url))

\* C1: a handleCallback invocation with a code and no error whose state
\* parameter differs from the stored oauth_state ends with "Security Error"
\* and has sent no request at all.
C1_MismatchFailsClosed ==
    (cb.loaded /\ cb.params.state /= cb.savedState)
        => /\ cb.pc = "done"
           /\ cb.result.kind = "error"
           /\ cb.result.title = "Security Error"
           /\ cb.reqs = <<>>

\* a callback carrying one state value was checked against another stored one
C1_Witness ==
    /\ cb.pc = "done" /\ cb.loaded
    /\ cb.params.state \notin {NULL, ""} /\ cb.savedState \notin {NULL, ""}
    /\ cb.params.state /= cb.savedState
    /\ cb.result.title = "Security Error"

\* C2: handleCallback sends a token request (or the backend exchange
\* request) only if session storage held an oauth_state when it ran and the
\* state parameter was present and equal to it.
C2_ExchangeNeedsMatchingFlowState ==
    ExchangeRequests /= {}
        => /\ cb.savedState /= NULL
           /\ cb.params.state /= NULL
           /\ cb.params.state = cb.savedState

\* C3: after a signIn and the first handleCallback with the matching code
\* and state, a later handleCallback with the same query parameters and no
\* signIn in between fails without a token request, and no later
\* handleCallback succeeds until a fresh signIn.
C3_ReplayFailsUntilFreshSignIn ==
    /\ cb.replay => /\ ExchangeRequests = {}
                    /\ cb.pc = "done" /\ cb.result.kind = "error"
    /\ cb.afterFirst => cb.result.kind /= "ok"

\* C4: a handleCallback invocation that reached the FlowState load leaves
\* none of oauth_state, pkce_verifier, oauth_redirect_uri, oauth_client_id
\* in session storage when it ends.
C4_FlowStateErasedOnceRead ==
    (cb.pc = "done" /\ cb.loaded)
        => \A k \in Keys : storage[k] = NULL

\* C5: FlowState survives no callback: once a handleCallback invocation has
\* ended, however it ended, session storage holds no FlowState entry (a
\* signIn after it opens a new page, on which no invocation has ended).
C5_FlowStateSurvivesNoCallback ==
    (cb.pc = "done")
        => \A k \in Keys : storage[k] = NULL

\* C6: direct variant: the token request of a handleCallback whose state
\* parameter matched the stored state carries the redirect_uri and the
\* client_id of the authorization URL of that attempt.
C6_DirectTokenRequestMatchesAuthorization ==
    [][(/\ variant = "direct"
        /\ cb.pc \in {"idle", "done"} /\ cb'.pc = "token"
        /\ cb'.params.state /= NULL)
          => /\ Get(cb'.reqs[1].params, "redirect_uri")
                  = Get(nav.params, "redirect_uri")
             /\ Get(cb'.reqs[1].params, "client_id")
                  = Get(nav.params, "client_id")]_vars

\* a token request went out for an attempt with its own callback and client
C6_Witness ==
    /\ variant = "direct" /\ cb.pc = "token" /\ cb.params.state /= NULL
    /\ Get(cb.reqs[1].params, "redirect_uri") = "https://app.example/done"
    /\ Get(cb.reqs[1].params, "client_id") = "app1"
    /\ Get(nav.params, "redirect_uri") = "https://app.example/done"

\* C7: proxy variant: the token request sent for a handleCallback whose
\* state matched carries the redirect_uri and the client_id of the
\* authorization request of that attempt (an attempt whose signIn was given
\* a clientId).
C7_ProxyTokenRequestMatchesAuthorization ==
    [][(/\ variant = "proxy"
        /\ cb.pc = "backend" /\ cb.params.state /= NULL
        /\ Get(nav.params, "client_id") /= NULL
        /\ srv'.pc = "token" /\ srv'.caller = "browser")
          => /\ Get(srv'.reqs[1].params, "redirect_uri")
                  = Get(nav.params, "redirect_uri")
             /\ Get(srv'.reqs[1].params, "client_id")
                  = Get(nav.params, "client_id")]_vars

\* C8: in exchangeCodeForTokens the body given to the signer is the body
\* of the token POST, with and without a code verifier.
C8_SignedBodyIsSentBody ==
    (srv.pc /= "idle" /\ srv.reqs /= <<>>)
        => srv.signed.body = BodyOf(srv.reqs[1])

\* a signed token request that carries a code verifier is on the wire
C8_Witness ==
    /\ srv.pc = "token" /\ srv.caller = "direct"
    /\ Get(srv.reqs[1].params, "code_verifier") = "v1"
    /\ srv.signed.body /= NULL

\* C9: in exchangeCodeForTokens the request path covered by the signature
\* is the path of the URL the token request is POSTed to.
C9_SignedPathIsRequestPath ==
    (srv.pc /= "idle" /\ srv.reqs /= <<>>)
        => srv.signed.requestPath = UrlPath(srv.reqs[1].url)

\* C10: when signIn triggers the navigation, session storage holds the
\* state, codeVerifier, redirectUri and clientId of that attempt.
C10_PersistedBeforeRedirect ==
    nav.params /= <<>>
        => /\ nav.stored["oauth_state"] = Get(nav.params, "state")
           /\ nav.stored["pkce_verifier"] /= NULL
           /\ generateCodeChallenge(nav.stored["pkce_verifier"])
                  = Get(nav.params, "code_challenge")
           /\ nav.stored["oauth_redirect_uri"] = Get(nav.params, "redirect_uri")
           /\ nav.stored["oauth_client_id"] /= NULL

\* sub occurs in s
Contains(s, sub) ==
    \E i \in 1..(Len(s) - Len(sub) + 1) : SubSeq(s, i, i + Len(sub) - 1) = sub

\* C11: the authorization URL carries the code_challenge and no verifier,
\* and a request of handleCallback carries the verifier only if it is the
\* exchange request, the first request of an invocation whose state
\* parameter equalled the stored state.
C11_VerifierOnlyInExchange ==
    /\ nav.params /= <<>>
         => LET url == FullAuthUrl(nav.params)
            IN  /\ Truthy(Get(nav.params, "code_challenge"))
                /\ Contains(url, "&code_challenge=")
                /\ \A v \in RandomVerifiers : ~Contains(url, v)
    /\ \A i \in 1..Len(cb.reqs) :
          (\/ Get(cb.reqs[i].params, "code_verifier") /= NULL
           \/ \E v \in RandomVerifiers :
                 cb.reqs[i].auth /= NULL /\ Contains(cb.reqs[i].auth, v))
            => /\ i = 1
               /\ cb.reqs[i].kind \in {"token", "backend"}
               /\ cb.loaded
               /\ cb.params.state = cb.savedState

\* the verifier of the attempt went out in the token request, after the
\* browser had been sent to an authorization URL
C11_Witness ==
    /\ variant = "direct" /\ cb.pc = "token"
    /\ nav.params /= <<>>
    /\ nav.stored["pkce_verifier"] \in RandomVerifiers
    /\ Get(cb.reqs[1].params, "code_verifier") = nav.stored["pkce_verifier"]

\* base64url without padding (RFC 4648, section 5), from the bits
UrlAlphabet ==
    "ABCDEFGHIJKLMNOPQRSTUVWXYZabcdefghijklmnopqrstuvwxyz0123456789-_"

BitOf(bytes, k) ==
    IF k > 8 * Len(bytes) THEN 0
    ELSE LET byte == bytes[((k - 1) \div 8) + 1]
             pos == (k - 1) % 8
         IN  (byte \div (2 ^ (7 - pos))) % 2

RECURSIVE Base64UrlFrom(_, _)
Base64UrlFrom(bytes, j) ==
    IF 6 * (j - 1) >= 8 * Len(bytes) THEN ""
    ELSE LET b(n) == BitOf(bytes, 6 * (j - 1) + n)
             v == 32 * b(1) + 16 * b(2) + 8 * b(3) + 4 * b(4) + 2 * b(5) + b(6)
         IN  SubSeq(UrlAlphabet, v + 1, v + 1) \o Base64UrlFrom(bytes, j + 1)

Base64Url(bytes) == Base64UrlFrom(bytes, 1)

\* C12: the code_challenge of the authorization URL is
\* base64url(SHA-256(v)) for the verifier v that signIn persisted as
\* pkce_verifier in the same call; it is a function of v alone.
C12_ChallengeIsS256OfPersistedVerifier ==
    nav.params /= <<>>
        => /\ nav.stored["pkce_verifier"] \in RandomVerifiers
           /\ Get(nav.params, "code_challenge")
                  = Base64Url(Sha256(nav.stored["pkce_verifier"]))

\* a challenge whose base64 form had +, / and padding to rewrite
C12_Witness ==
    /\ nav.params /= <<>>
    /\ StartsWith(btoa(Sha256(nav.stored["pkce_verifier"])), "+/")
    /\ Contains(btoa(Sha256(nav.stored["pkce_verifier"])), "=")
    /\ StartsWith(Get(nav.params, "code_challenge"), "-_")
    /\ Len(Get(nav.params, "code_challenge")) = 7

\* a step that is a call of handleCallback, up to its first await or throw
IsCbStart == cb.pc \in {"idle", "done"} /\ cb'.pc /= "idle"

\* what C13 requires of a call whose query string has the error short-circuit
ErrorShortCircuit ==
    /\ cb'.pc = "done"
    /\ cb'.result.kind = "error"
    /\ cb'.result.title = "Authentication Error"
    /\ ~cb'.loaded
    /\ cb'.reqs = <<>>
    /\ storage' = storage
    /\ srv' = srv

\* C13 as stated: whenever the callback carries an error parameter, even an
\* empty one, handleCallback fails with "Authentication Error" and the
\* message error_description if that parameter is there, else the error,
\* before the code and state checks, with session storage not read, not
\* modified, and no request sent.
C13_ErrorParameterShortCircuits ==
    [][(IsCbStart /\ cb'.params.error /= NULL)
         => /\ ErrorShortCircuit
            /\ cb'.result.message =
                 IF cb'.params.error_description /= NULL
                 THEN cb'.params.error_description
                 ELSE cb'.params.error]_vars

\* C13 amended: whenever the callback carries a non-empty error parameter,
\* handleCallback fails with "Authentication Error" and the message
\* error_description if that is non-empty, else the error, whatever the code
\* and state parameters, with session storage not read, not modified, and
\* no request sent.
C13_NonEmptyErrorShortCircuits ==
    [][(IsCbStart /\ Truthy(cb'.params.error))
         => /\ ErrorShortCircuit
            /\ cb'.result.message =
                 IF Truthy(cb'.params.error_description)
                 THEN cb'.params.error_description
                 ELSE cb'.params.error]_vars

\* an error callback with a description, no code and a state that is not
\* the stored one was answered from the error parameters, the FlowState of
\* the attempt still in place
C13_Witness ==
    /\ cb.pc = "done" /\ cb.result.title = "Authentication Error"
    /\ cb.result.message = "User declined"
    /\ cb.params.code = NULL
    /\ storage["oauth_state"] \notin {NULL, cb.params.state}
    /\ storage["pkce_verifier"] /= NULL

\* C14: a callback with no error parameter and no code, absent or empty,
\* fails with "Missing Authorization Code", sends no request and leaves
\* session storage as it was.
C14_MissingCodeFails ==
    [][(IsCbStart /\ ~Truthy(cb'.params.error) /\ ~Truthy(cb'.params.code))
         => /\ cb'.pc = "done"
            /\ cb'.result.kind = "error"
            /\ cb'.result.title = "Missing Authorization Code"
            /\ cb'.reqs = <<>>
            /\ storage' = storage
            /\ srv' = srv]_vars

\* a callback with an empty code and the state of the attempt was refused,
\* the FlowState of the attempt still in place
C14_Witness ==
    /\ cb.pc = "done" /\ cb.result.title = "Missing Authorization Code"
    /\ cb.params.code = "" /\ cb.params.error = NULL
    /\ cb.params.state /= NULL
    /\ storage["oauth_state"] = cb.params.state

\* the names of a parameter list
ParamNames(params) == {params[i][1] : i \in 1..Len(params)}

\* C15: the authorization URL carries exactly redirect_uri,
\* response_type=code, state, scope, code_challenge and
\* code_challenge_method=S256, plus client_id if and only if the caller gave
\* a clientId, plus provider if and only if the caller gave a provider.
C15_AuthorizationUrlParameters ==
    nav.params /= <<>>
        => /\ ParamNames(nav.params) =
                {"redirect_uri", "response_type", "state", "scope",
                 "code_challenge", "code_challenge_method"}
                \cup (IF Truthy(nav.options.clientId) THEN {"client_id"} ELSE {})
                \cup (IF Truthy(nav.options.provider) THEN {"provider"} ELSE {})
           /\ Cardinality(ParamNames(nav.params)) = Len(nav.params)
           /\ Get(nav.params, "response_type") = "code"
           /\ Get(nav.params, "code_challenge_method") = "S256"
           /\ Truthy(nav.options.clientId)
                => Get(nav.params, "client_id") = nav.options.clientId
           /\ Truthy(nav.options.provider)
                => Get(nav.params, "provider") = nav.options.provider

Letters == "abcdefghijklmnopqrstuvwxyz"

\* s is scheme://rest: an absolute URL
IsAbsoluteUrl(s) ==
    /\ s /= NULL
    /\ \E i \in 2..(Len(s) - 2) :
          /\ SubSeq(s, i, i + 2) = "://"
          /\ \A j \in 1..(i - 1) : Contains(Letters, SubSeq(s, j, j))

\* C16: the redirect_uri of signIn is the callbackURL itself when that is
\* an absolute URL, the origin followed by the callbackURL (with a slash
\* between them when it has no leading one) when it is relative, the origin
\* followed by /callback when there is none; it is an absolute URL whatever
\* the callbackURL.
C16_RedirectUriResolution ==
    nav.params /= <<>>
        => LET callbackURL == nav.options.callbackURL
               redirectUri == Get(nav.params, "redirect_uri")
           IN  /\ IsAbsoluteUrl(redirectUri)
               /\ callbackURL = NULL => redirectUri = Origin \o "/callback"
               /\ IsAbsoluteUrl(callbackURL) => redirectUri = callbackURL
               /\ (Truthy(callbackURL) /\ ~IsAbsoluteUrl(callbackURL))
                    => redirectUri =
                         Origin \o (IF StartsWith(callbackURL, "/")
                                    THEN callbackURL ELSE "/" \o callbackURL)

\* what a server reads from an application/x-www-form-urlencoded body: the
\* name=value pairs between the &, percent-decoded
DecodeHex(h) ==
    CASE h = "3A" -> ":"
      [] h = "2F" -> "/"
      [] h = "3D" -> "="
      [] h = "26" -> "&"
      [] h = "28" -> "("
      [] h = "29" -> ")"
      [] h = "3C" -> "<"
      [] h = "3E" -> ">"
      [] OTHER    -> "?"

RECURSIVE DecodeForm(_)
DecodeForm(s) ==
    IF s = "" THEN ""
    ELSE IF SubSeq(s, 1, 1) = "+" THEN " " \o DecodeForm(SubSeq(s, 2, Len(s)))
    ELSE IF SubSeq(s, 1, 1) = "%"
    THEN DecodeHex(SubSeq(s, 2, 3)) \o DecodeForm(SubSeq(s, 4, Len(s)))
    ELSE SubSeq(s, 1, 1) \o DecodeForm(SubSeq(s, 2, Len(s)))

RECURSIVE SplitOn(_, _)
SplitOn(s, c) ==
    LET i == IndexFrom(s, c, 1)
    IN  IF i = 0 THEN <<s>>
        ELSE <<SubSeq(s, 1, i - 1)>> \o SplitOn(SubSeq(s, i + 1, Len(s)), c)

ParseForm(s) ==
    IF s = "" THEN <<>>
    ELSE LET parts == SplitOn(s, "&")
         IN  [i \in 1..Len(parts) |->
                LET eq == IndexFrom(parts[i], "=", 1)
                IN  <<DecodeForm(SubSeq(parts[i], 1, eq - 1)),
                      DecodeForm(SubSeq(parts[i], eq + 1, Len(parts[i])))>>]

\* C17: the body of the token request of exchangeCodeForTokens, read as a
\* form, has grant_type=authorization_code and the code, redirect_uri and
\* client_id of the options, code_verifier with the codeVerifier of the
\* options exactly when one (a non-empty one) was given, and nothing else.
C17_TokenRequestBody ==
    (srv.pc /= "idle" /\ srv.reqs /= <<>>)
        => LET form == ParseForm(BodyOf(srv.reqs[1]))
               given == Truthy(srv.options.codeVerifier)
           IN  /\ ParamNames(form) =
                    {"grant_type", "code", "redirect_uri", "client_id"}
                    \cup (IF given THEN {"code_verifier"} ELSE {})
               /\ Len(form) = Cardinality(ParamNames(form))
               /\ Get(form, "grant_type") = "authorization_code"
               /\ Get(form, "code") = srv.options.code
               /\ Get(form, "redirect_uri") = srv.options.redirectUri
               /\ Get(form, "client_id") = srv.options.clientId
               /\ given => Get(form, "code_verifier") = srv.options.codeVerifier

\* a token request for a call that was given a code verifier is on the wire
C17_Witness ==
    /\ srv.pc = "token" /\ srv.caller = "direct"
    /\ srv.options.codeVerifier = "v1"
    /\ srv.options.redirectUri = "https://app.example/done"
    /\ Contains(BodyOf(srv.reqs[1]), "&code_verifier=v1")

\* C18: when the token endpoint answers exchangeCodeForTokens with a status
\* that is not a success, the call throws a value with an error text, the
\* response body as details, the status of the response and the endpoint,
\* and no userinfo request is sent.
C18_TokenFailureSurfaced ==
    (/\ srv.pc = "done" /\ srv.resps /= <<>>
     /\ srv.resps[1].kind = "http" /\ ~srv.resps[1].ok)
        => /\ Len(srv.reqs) = 1
           /\ Len(srv.resps) = 1
           /\ srv.caller = "direct"
                => /\ srv.outcome.kind = "throw"
                   /\ Truthy(srv.outcome.body.error)
                   /\ srv.outcome.body.details = srv.resps[1].body
                   /\ srv.outcome.body.status = srv.resps[1].status
                   /\ srv.reqs[1].url
                        = IssuerOf(srv.options) \o srv.outcome.body.endpoint

\* a call of exchangeCodeForTokens ended on a 400 invalid_grant answer
C18_Witness ==
    /\ srv.pc = "done" /\ srv.caller = "direct"
    /\ srv.resps = <<Http(FALSE, 400, UpError("invalid_grant", "bad request"))>>
    /\ srv.outcome.kind = "throw"
    /\ srv.outcome.body.status = 400

\* C19: exchangeCodeForTokens sends the userinfo GET only once a successful
\* token response has arrived, with that response's access_token as bearer
\* token, and on success returns the userinfo body as user with the
\* access_token and refresh_token of the token response.
C19_UserinfoAfterTokens ==
    /\ Len(srv.reqs) >= 2
         => /\ srv.resps /= <<>>
            /\ srv.resps[1].kind = "http" /\ srv.resps[1].ok
            /\ srv.reqs[2].kind = "userinfo" /\ srv.reqs[2].method = "GET"
            /\ srv.reqs[2].auth = "Bearer " \o srv.resps[1].body.access_token
            /\ Len(srv.reqs) = 2
    /\ (srv.caller = "direct" /\ srv.outcome.kind = "result")
         => /\ Len(srv.resps) = 2 /\ Len(srv.reqs) = 2
            /\ srv.outcome.body.user = srv.resps[2].body
            /\ srv.outcome.body.access_token = srv.resps[1].body.access_token
            /\ srv.outcome.body.refresh_token = srv.resps[1].body.refresh_token

\* a call of exchangeCodeForTokens returned user u1 with tok1 and ref1
C19_Witness ==
    /\ srv.pc = "done" /\ srv.caller = "direct"
    /\ srv.outcome.kind = "result"
    /\ srv.outcome.body.user = UpUser("u1")
    /\ srv.outcome.body.access_token = "tok1"
    /\ srv.outcome.body.refresh_token = "ref1"
    /\ srv.reqs[2].auth = "Bearer tok1"

\* the invocation of handleCallback is the first one since signIn that was
\* called with the state signIn stored
IsRoundTrip == hist.consumed /\ ~cb.afterFirst /\ cb.pc /= "idle"

\* C20: direct variant: signIn followed by handleCallback with a code and
\* the state of that attempt, the token endpoint answering with tokens and
\* the userinfo endpoint with a user record, resolves with that record as
\* user and the access_token and refresh_token of the token answer.
C20_RoundTrip ==
    (/\ variant = "direct" /\ IsRoundTrip
     /\ Len(cb.resps) >= 1
     /\ cb.resps[1].kind = "http" /\ cb.resps[1].ok /\ cb.resps[1].body.json)
        => /\ cb.pc \in {"userinfo", "done"}
           /\ (/\ cb.pc = "done"
               /\ cb.resps[2].kind = "http" /\ cb.resps[2].ok
               /\ cb.resps[2].body.json)
                => cb.result = [kind |-> "ok", title |-> NULL, message |-> NULL,
                                user |-> cb.resps[2].body,
                                access_token |-> cb.resps[1].body.access_token,
                                refresh_token |-> cb.resps[1].body.refresh_token]

\* signIn with callbackURL /done, then the callback of that attempt,
\* answered with tok1, ref1 and user u1
C20_Witness ==
    /\ variant = "direct" /\ IsRoundTrip /\ cb.pc = "done"
    /\ nav.options.callbackURL = "/done"
    /\ cb.params.state = Get(nav.params, "state")
    /\ cb.resps = <<Http(TRUE, 200, UpTokens("tok1", "ref1")),
                    Http(TRUE, 200, UpUser("u1"))>>
    /\ cb.result.kind = "ok"
    /\ cb.result.user = UpUser("u1")
    /\ cb.result.access_token = "tok1" /\ cb.result.refresh_token = "ref1"

\* C21: in the direct variant a non-ok token response whose JSON body has
\* error invalid_grant ends the invocation with the title "Invalid
\* Authorization Code", one with error invalid_client ends it with another
\* title, and the title/message pair thrown for the one is thrown for no
\* response of the other kind
Pair(result) == <<result.title, result.message>>

RejectedTokenResponses(error) ==
    {r \in TokenResponses :
        r.kind = "http" /\ ~r.ok /\ r.body.json /\ r.body.error = error}

C21_DirectGrantAndClientTitlesDiffer ==
    (/\ variant = "direct"
     /\ cb.pc = "done"
     /\ Len(cb.resps) = 1
     /\ cb.resps[1].kind = "http"
     /\ ~cb.resps[1].ok
     /\ cb.resps[1].body.json)
    => /\ cb.result.kind = "error"
       /\ cb.resps[1].body.error = "invalid_grant"
            => /\ cb.result.title = "Invalid Authorization Code"
               /\ \A r \in RejectedTokenResponses("invalid_client") :
                     Pair(DirectTokenError(r.body)) /= Pair(cb.result)
       /\ cb.resps[1].body.error = "invalid_client"
            => /\ cb.result.title /= "Invalid Authorization Code"
               /\ \A r \in RejectedTokenResponses("invalid_grant") :
                     Pair(DirectTokenError(r.body)) /= Pair(cb.result)

C21_Witness ==
    /\ variant = "direct"
    /\ cb.pc = "done"
    /\ Len(cb.resps) = 1
    /\ cb.resps[1] = Http(FALSE, 400, UpError("invalid_grant", "bad request"))
    /\ cb.result.title = "Invalid Authorization Code"

\* C22: in the proxy variant the title/message pair thrown when the token
\* endpoint rejected the exchange with invalid_grant is thrown for no
\* failure of the exchange that is neither invalid_grant nor invalid_client,
\* and the same holds of invalid_client
GenericTokenFailures ==
    {r \in TokenResponses :
        /\ r.kind = "http"
        /\ ~r.ok
        /\ ~(r.body.json /\ r.body.error \in {"invalid_client", "invalid_grant"})}

GenericFailurePairs ==
    {Pair(ProxyError(HandlerCatch(TRUE, TokenExchangeFailed(r)))) :
        r \in GenericTokenFailures}
    \cup {Pair(ProxyError(HandlerCatch(FALSE,
              [HBody EXCEPT !.error = "TypeError",
                            !.details = UpText("fetch failed")]))),
          Pair(Throw("Authentication Failed", "Failed to fetch"))}

IsProxyRejection(error) ==
    /\ variant = "proxy"
    /\ cb.pc = "done"
    /\ Len(cb.resps) = 1
    /\ cb.resps[1].kind = "http"
    /\ ~cb.resps[1].ok
    /\ cb.resps[1].body.endpoint = "/api/auth/oauth2/token"
    /\ cb.resps[1].body.details.json
    /\ cb.resps[1].body.details.error = error

C22_ProxyFailuresDistinct ==
    /\ IsProxyRejection("invalid_grant")
         => /\ cb.result.kind = "error"
            /\ Pair(cb.result) \notin GenericFailurePairs
            /\ cb.result.title /= "Platform Not Registered"
    /\ IsProxyRejection("invalid_client")
         => /\ cb.result.kind = "error"
            /\ Pair(cb.result) \notin GenericFailurePairs
            /\ cb.result.title = "Platform Not Registered"

\* C23: an invocation of handleCallback that has ended without a result
\* has rejected with a value that has a title and a message, whatever made
\* it fail; it never rejects with the exception of a fetch or of a parse
C23_FailuresAreStructured ==
    (cb.pc = "done" /\ cb.result.kind /= "ok")
    => /\ cb.result.kind = "error"
       /\ cb.result.title /= NULL
       /\ cb.result.message /= NULL

\* a network exception and a malformed body, each rejected as a pair
C23_Witness ==
    /\ cb.pc = "done"
    /\ Len(cb.resps) = 2
    /\ cb.resps[2] \in {NetErr, Http(TRUE, 200, UpText("<html>"))}
    /\ cb.result.kind = "error"
    /\ cb.result.title = "Authentication Failed"

\* C24: an invocation of handleCallback or of exchangeCodeForTokens sends
\* at most one token request and at most one userinfo request (the proxy
\* handleCallback at most one request to the backend), and once a response
\* is a network error or has a non-success status the invocation has ended
\* with no request sent after the one that failed
CountKind(reqs, kind) ==
    Cardinality({i \in 1..Len(reqs) : reqs[i].kind = kind})

Failed(resp) == resp.kind = "neterr" \/ ~resp.ok

NoRetry(inv) ==
    /\ \A kind \in {"token", "userinfo", "backend"} :
         CountKind(inv.reqs, kind) <= 1
    /\ Len(inv.resps) <= Len(inv.reqs)
    /\ \A i \in 1..Len(inv.resps) :
         Failed(inv.resps[i]) => inv.pc = "done" /\ Len(inv.reqs) = i

C24_NothingIsRetried == NoRetry(cb) /\ NoRetry(srv)

\* a token request failed in either build, and a userinfo request failed
C24_Witness ==
    /\ cb.pc = "done"
    /\ Len(cb.resps) = 1
    /\ Failed(cb.resps[1])
    /\ cb.reqs[1].kind \in {"token", "backend"}
    /\ cb.result.kind = "error"

\* C25: in a browser tab, a second signIn leaves in session storage the
\* FlowState of the second attempt only. From then on a callback that
\* carries the state of the first attempt (the two attempts drew different
\* states) fails the state check with "Security Error" and sends nothing;
\* a callback that carries the state of the second attempt, and is the
\* first to read the stored FlowState, passes the state check
C25_SecondAttemptOverwrites ==
    [][/\ (hasWindow /\ nav' /= nav)
            => /\ storage' = nav'.stored
               /\ storage'["oauth_state"] = Get(nav'.params, "state")
       /\ (IsCbStart /\ hasWindow /\ prev /= NULL /\ cb'.loaded)
            => /\ (cb'.params.state = prev
                       /\ prev /= nav.stored["oauth_state"])
                    => /\ cb'.pc = "done"
                       /\ cb'.result.title = "Security Error"
                       /\ cb'.reqs = <<>>
               /\ (cb'.params.state = nav.stored["oauth_state"]
                       /\ hist.fresh)
                    => /\ cb'.pc \in {"token", "backend"}
                       /\ Len(cb'.reqs) = 1]_vars

\* after two attempts with different states, the callback of the first
\* has been refused
C25_Witness ==
    /\ hasWindow
    /\ prev /= NULL
    /\ prev /= nav.stored["oauth_state"]
    /\ cb.pc = "done"
    /\ cb.loaded
    /\ cb.params.state = prev
    /\ cb.result.title = "Security Error"
    /\ cb.reqs = <<>>

\* C26: no signIn or handleCallback step of one tab changes what is stored
\* for the other tab, and a handleCallback of the other tab that carries
\* the state of that tab's attempt passes the state check, whatever the
\* first tab did in between
C26_TabsDoNotInterfere ==
    [][/\ (storage' /= storage \/ cb' /= cb \/ nav' /= nav) => peer' = peer
       /\ peer'.check /= "failed"]_vars

\* the second tab's callback passed although the first tab has since
\* stored another attempt and run a callback of its own
C26_Witness ==
    /\ peer.check = "passed"
    /\ nav /= NoNav
    /\ nav.stored["oauth_state"] /= peer.state
    /\ cb.pc /= "idle"
    /\ cb.loaded

\* C27: a signIn call with a non-empty authToken sends one request, a POST
\* to /sign-in/sigma, and nothing else: session storage, the location and
\* the record of the redirect attempt stay as they were; when the call
\* comes back no further request has been sent and the promise resolves
\* with the response
IsLocalCall == si'.mode = "local" /\ si'.promise = "pending" /\ si' /= si

C27_LocalSignInOnly ==
    [][/\ IsLocalCall
            => /\ Len(si'.reqs) = 1
               /\ si'.reqs[1].method = "POST"
               /\ si'.reqs[1].url = "/sign-in/sigma"
               /\ UNCHANGED <<storage, nav, hist, cb>>
       /\ (si.mode = "local" /\ si.promise = "pending"
              /\ si'.promise = "resolved")
            => /\ si'.reqs = si.reqs
               /\ si'.value \in LocalResponses
               /\ UNCHANGED <<storage, nav, hist, cb>>]_vars

\* C28: the promise of a signIn call that took the redirect path is never
\* resolved and never rejected, with or without an (empty) authToken and
\* whatever came back from an earlier local call
C28_RedirectPromiseNeverSettles ==
    si.mode = "redirect" => si.promise = "pending"

\* the browser has been sent to the authorization URL and the promise of
\* that call is pending
C28_Witness ==
    /\ hasWindow
    /\ nav /= NoNav
    /\ si.mode = "redirect"
    /\ si.promise = "pending"

\* C29: the member private key an exchange signs with occurs in no request
\* exchangeCodeForTokens sends (URL, headers, body) and in no member of a
\* response of the route handler; the X-Auth-Token made from it is a header
\* of the token request and of no other request
StringsOf(r) == {r[k] : k \in DOMAIN r} \ {NULL}

TextOf(body) ==
    StringsOf([error |-> body.error, endpoint |-> body.endpoint,
               access_token |-> body.access_token,
               refresh_token |-> body.refresh_token])
    \cup StringsOf([k \in DOMAIN body.details \ {"json"} |-> body.details[k]])
    \cup StringsOf([k \in DOMAIN body.user \ {"json"} |-> body.user[k]])

SentBy(req) == {req.url, req.auth} \cup ({BodyOf(req)} \ {NULL})

C29_KeyStaysOnBackend ==
    Truthy(srv.options.memberPrivateKey)
    => LET key == srv.options.memberPrivateKey
       IN  /\ \A i \in 1..Len(srv.reqs) :
                /\ \A t \in SentBy(srv.reqs[i]) : ~Contains(t, key)
                /\ Contains(srv.reqs[i].auth, "X-Auth-Token")
                     => /\ srv.reqs[i].kind = "token"
                        /\ srv.reqs[i].auth =
                             "X-Auth-Token: " \o getAuthToken(srv.signed)
           /\ (srv.pc = "done" /\ srv.caller /= "direct")
                => \A t \in TextOf(srv.outcome.body) : ~Contains(t, key)

\* the handler has answered an exchange that was signed with the key, once
\* with a result and once with an error
C29_Witness ==
    /\ srv.pc = "done"
    /\ srv.caller = "external"
    /\ srv.signed.privateKeyWif = "wif"
    /\ Len(srv.reqs) = 2
    /\ ~srv.outcome.ok

\* C30: an invocation of handleCallback goes forward only. What it has done
\* shows the order of its steps: a provider error or a missing code ends it
\* before the FlowState is read, a request is sent only after the state was
\* read and matched, the token request comes first and the userinfo
\* request only after an ok token response, a result only after both. Once
\* ended it takes no further step, and, every awaited response or error
\* arriving, an invocation that is waiting ends or is left behind by a
\* navigation
Rank(pc) ==
    CASE pc = "idle" -> 0
      [] pc \in {"token", "backend"} -> 1
      [] pc \in {"userinfo", "awaiting"} -> 2
      [] pc = "done" -> 3

StepsInOrder ==
    /\ cb.result.title \in {"Authentication Error", "Missing Authorization Code"}
         => ~cb.loaded /\ cb.reqs = <<>>
    /\ cb.reqs /= <<>>
         => /\ cb.loaded
            /\ cb.params.state = cb.savedState
            /\ ~Truthy(cb.params.error)
            /\ Truthy(cb.params.code)
    /\ Len(cb.reqs) <= 2
    /\ Len(cb.resps) <= Len(cb.reqs)
    /\ variant = "direct"
         => /\ Len(cb.reqs) >= 1 => cb.reqs[1].kind = "token"
            /\ Len(cb.reqs) = 2
                 => /\ cb.reqs[2].kind = "userinfo"
                    /\ cb.resps[1].ok
            /\ cb.result.kind = "ok" => Len(cb.resps) = 2
    /\ cb.result.kind /= "none" <=> cb.pc = "done"

Forward ==
    \/ cb' = cb
    \/ cb' = CbIdle
    \/ /\ cb.pc \in {"idle", "done"}
       /\ cb'.resps = <<>>
       /\ Len(cb'.reqs) <= 1
    \/ /\ cb.pc \notin {"idle", "done"}
       /\ Rank(cb'.pc) > Rank(cb.pc)
       /\ cb'.params = cb.params
       /\ cb'.savedState = cb.savedState
       /\ Len(cb'.reqs) >= Len(cb.reqs)
       /\ SubSeq(cb'.reqs, 1, Len(cb.reqs)) = cb.reqs
       /\ Len(cb'.resps) \in {Len(cb.resps), Len(cb.resps) + 1}

Waiting == cb.pc \in {"token", "userinfo", "backend", "awaiting"}

C30_LinearAndTerminating ==
    /\ [][Forward /\ StepsInOrder']_vars
    /\ Waiting ~> ~Waiting

\* an invocation that went through every step and returned
C30_Witness ==
    /\ variant = "direct"
    /\ cb.pc = "done"
    /\ cb.result.kind = "ok"
    /\ Len(cb.reqs) = 2
    /\ Len(cb.resps) = 2

\* C31: when the token response was ok and the userinfo response is not,
\* the invocation rejects with a title/message pair that no failure of the
\* token request produces, and neither the rejection nor, in the proxy
\* variant, the response of the route handler carries the tokens that were
\* obtained
DirectTokenFailurePairs ==
    {Pair(Catch(DirectTokenError(r.body))) :
        r \in {t \in TokenResponses : t.kind = "http" /\ ~t.ok}}
    \cup {Pair(Catch(Raise("Failed to fetch"))),
          Pair(Catch(Raise("Unexpected token in JSON")))}

ProxyTokenFailurePairs ==
    GenericFailurePairs
    \cup {Pair(Catch(ProxyError(HandlerCatch(TRUE, TokenExchangeFailed(r))))) :
            r \in {t \in TokenResponses : t.kind = "http" /\ ~t.ok}}
    \cup {Pair(Catch(ProxyError(HandlerCatch(FALSE,
              [HBody EXCEPT !.error = "SyntaxError",
                            !.details = UpText("Unexpected token")]))))}

IssuedTokens == {"tok1", "ref1"}

NoTokensIn(result) ==
    /\ result.access_token = NULL
    /\ result.refresh_token = NULL
    /\ \A t \in IssuedTokens :
         ~Contains(result.title, t) /\ ~Contains(result.message, t)

UserinfoRejectedDirect ==
    /\ variant = "direct"
    /\ cb.pc = "done"
    /\ Len(cb.resps) = 2
    /\ cb.resps[2].kind = "http"
    /\ ~cb.resps[2].ok

UserinfoRejectedProxy ==
    /\ variant = "proxy"
    /\ cb.pc = "done"
    /\ Len(cb.resps) = 1
    /\ cb.resps[1].kind = "http"
    /\ ~cb.resps[1].ok
    /\ cb.resps[1].body.endpoint = "/api/auth/oauth2/userinfo"

ThrownByExchange ==
    IF Len(srv.resps) = 1 THEN TokenExchangeFailed(srv.resps[1])
    ELSE UserInfoError(srv.resps[2])

C32_HandlerSurfacesFailure ==
    (srv.pc = "done" /\ srv.caller \in {"browser", "external"})
    => /\ srv.outcome.kind = "http"
       /\ (srv.resps /= <<>> /\ Failed(srv.resps[Len(srv.resps)]))
            => LET last == srv.resps[Len(srv.resps)]
               IN  IF last.kind = "http"
                   THEN /\ srv.outcome.status = last.status
                        /\ srv.outcome.body.error = ThrownByExchange.error
                        /\ srv.outcome.body.details = ThrownByExchange.details
                        /\ srv.outcome.body.status = ThrownByExchange.status
                        /\ srv.outcome.body.endpoint = ThrownByExchange.endpoint
                   ELSE srv.outcome.status = 500
       /\ (srv.resps /= <<>> /\ srv.resps[Len(srv.resps)].ok
              /\ ~srv.resps[Len(srv.resps)].body.json)
            => srv.outcome.status = 500

\* C33: the route handler has sent a request only if the body it was
\* called with has a code and a member private key and a client id are
\* configured; otherwise it has answered at once, without any request: 400
\* for a missing code, else 500 for a missing key, else 500 for a missing
\* client id
EarlyAnswer(status, error, details) ==
    /\ srv.pc = "done"
    /\ srv.reqs = <<>>
    /\ srv.outcome.kind = "http"
    /\ srv.outcome.status = status
    /\ srv.outcome.body.error = error
    /\ srv.outcome.body.details = details

C33_HandlerGuards ==
    srv.caller \in {"browser", "external"}
    => IF ~Truthy(srv.request.code)
       THEN EarlyAnswer(400, "Missing authorization code", NoBody)
       ELSE IF ~Truthy(srv.config.memberPrivateKey)
       THEN EarlyAnswer(500, "Server configuration error",
                        UpText("Missing SIGMA_MEMBER_PRIVATE_KEY"))
       ELSE IF ~Truthy(srv.config.clientId)
       THEN EarlyAnswer(500, "Server configuration error",
                        UpText("Missing client ID"))
       ELSE /\ srv.reqs /= <<>>
            /\ srv.reqs[1].kind = "token"
            /\ Get(srv.reqs[1].params, "code") = srv.request.code
            /\ Get(srv.reqs[1].params, "client_id") = srv.config.clientId

\* a body without a code, sent to a deployment without a key and without
\* a client id, is answered 400
C33_Witness ==
    /\ srv.caller = "external"
    /\ srv.request.code = ""
    /\ srv.config.memberPrivateKey = NULL
    /\ srv.config.clientId = NULL
    /\ EarlyAnswer(400, "Missing authorization code", NoBody)

\* C34: whenever exchangeCodeForTokens resolved inside the route handler,
\* that is both responses were ok and parsed as JSON, the handler answers
\* with status 200 and a body whose user is the userinfo payload and whose
\* tokens are those of the token response
ExchangeResolved ==
    /\ srv.pc = "done"
    /\ srv.caller \in {"browser", "external"}
    /\ Len(srv.resps) = 2
    /\ srv.resps[1].ok /\ srv.resps[1].body.json
    /\ srv.resps[2].ok /\ srv.resps[2].body.json

C34_HandlerReturnsResult ==
    ExchangeResolved
    => /\ srv.outcome.kind = "http"
       /\ srv.outcome.status = 200
       /\ srv.outcome.body =
            [HBody EXCEPT !.user = srv.resps[2].body,
                          !.access_token = srv.resps[1].body.access_token,
                          !.refresh_token = srv.resps[1].body.refresh_token]

\* C35: a request of handleCallback carries a code_verifier only when the
\* invocation matched its state parameter against a state that signIn had
\* stored, and the verifier is then the one that attempt stored with it
C35_VerifierOfMatchedAttempt ==
    \A i \in 1..Len(cb.reqs) :
       LET sent == Get(cb.reqs[i].params, "code_verifier")
       IN  Truthy(sent)
           => /\ cb.savedState /= NULL
              /\ cb.params.state = cb.savedState
              /\ cb.savedState = nav.stored["oauth_state"]
              /\ sent = nav.stored["pkce_verifier"]

\* C36: however two signIn calls of one tab interleave, once one of them
\* has navigated, the entries in session storage are exactly those written
\* by one call, the one that navigated last, and the state and challenge of
\* the URL it navigated to are the stored oauth_state and the challenge of
\* the stored pkce_verifier
C36_InterleavedSignInsStayConsistent ==
    (hasWindow /\ nav /= NoNav) =>
        /\ storage = nav.stored
        /\ \E options \in InterleavedOptions, state \in RandomStates,
              codeVerifier \in RandomVerifiers :
              storage = SetItems(EmptyStorage, options, state, codeVerifier)
        /\ Get(nav.params, "state") = storage["oauth_state"]
        /\ Get(nav.params, "code_challenge") =
              CodeChallengeOf[storage["pkce_verifier"]]

\* C36: two calls were suspended together, one resumed and navigated, and
\* the other, drawn with another state, is still suspended
C36_Witness ==
    /\ hasWindow
    /\ nav /= NoNav
    /\ \E call \in si.suspended :
          /\ call.state /= storage["oauth_state"]
          /\ call.codeVerifier /= storage["pkce_verifier"]

\* C37: the state that signIn stores and sends is never the empty string,
\* and no callback whose state parameter is empty passes the state check
C37_StateIsNeverEmpty ==
    /\ storage["oauth_state"] /= ""
    /\ (nav /= NoNav => Get(nav.params, "state") /= "")
    /\ ~(cb.params.state = "" /\ cb.savedState = "" /\ Len(cb.reqs) > 0)

\* C38: every request of the local sign-in path has method POST and, as its
\* headers, the X-Auth-Token header with the authToken of the call,
\* whatever fetchOptions came with it
C38_LocalRequestIsAuthenticatedPost ==
    si.mode = "local" =>
        \A i \in 1..Len(si.reqs) :
           /\ si.reqs[i].method = "POST"
           /\ si.reqs[i].auth = "X-Auth-Token: " \o si.authToken

====
